---- MODULE Spec2Model ----
(***************************************************************************)
(* A model of DasService (src/src/DasService.ts): the .bit naming-service  *)
(* backend that resolves account data through an injected transport.       *)
(*                                                                         *)
(* Strings the code takes apart (domain names, record keys, wire ttl) are  *)
(* sequences of one-character strings; strings the code only passes along  *)
(* (record values, account names, addresses) are atomic.                   *)
(***************************************************************************)
EXTENDS Integers, Sequences, FiniteSets, TLC

(***************************************************************************)
(* Bounds of the model.                                                    *)
(***************************************************************************)
\* longest domain string handed to isSupportedDomain / namehash
MaxLen == 6
\* most records in the indexer's payload for the registered account
MaxRecords == 3
\* most keys in one records(account, keys) request
MaxKeys == 1

(***************************************************************************)
(* JavaScript values that can be undefined, null, a string or a boolean.   *)
(***************************************************************************)
undefined == <<"undefined">>
null == <<"null">>
Str(s) == <<"string", s>>
Bool(b) == <<"boolean", b>>

\* JS truthiness of a tagged value: undefined, null, "" and false are falsy.
Truthy(v) ==
    /\ v # undefined
    /\ v # null
    /\ (v[1] = "string" => v[2] # "")
    /\ (v[1] = "boolean" => v[2])

(***************************************************************************)
(* String primitives: String.prototype.split('.'), Array.prototype.join,   *)
(* String.prototype.toLowerCase, Number(string).                           *)
(***************************************************************************)
RECURSIVE SplitFrom(_, _, _)
SplitFrom(s, i, cur) ==
    IF i > Len(s) THEN <<cur>>
    ELSE IF s[i] = "." THEN <<cur>> \o SplitFrom(s, i + 1, <<>>)
    ELSE SplitFrom(s, i + 1, Append(cur, s[i]))

\* s.split('.'): the labels between dots; "" splits to one empty label.
split(s) == SplitFrom(s, 1, <<>>)

RECURSIVE join(_)
\* parts.join('.')
join(parts) ==
    IF Len(parts) = 0 THEN <<>>
    ELSE IF Len(parts) = 1 THEN parts[1]
    ELSE parts[1] \o <<".">> \o join(Tail(parts))

LowerChar(c) ==
    CASE c = "X" -> "x"
      [] c = "A" -> "a"
      [] c = "E" -> "e"
      [] OTHER -> c

\* s.toLowerCase()
toLowerCase(s) == [i \in 1..Len(s) |-> LowerChar(s[i])]

DigitVal(c) ==
    CASE c = "0" -> 0
      [] c = "1" -> 1
      [] c = "3" -> 3
      [] c = "7" -> 7

RECURSIVE ParseDec(_)
\* the number a string of decimal digits denotes
ParseDec(s) ==
    IF Len(s) = 0 THEN 0
    ELSE 10 * ParseDec(SubSeq(s, 1, Len(s) - 1)) + DigitVal(s[Len(s)])

\* Number(x): parses a string, leaves a number as it is.
Number(x) ==
    IF x[1] = "string" THEN <<"number", ParseDec(x[2])>> ELSE x

(***************************************************************************)
(* Domain syntax: isSupportedDomain and namehash.                          *)
(***************************************************************************)
Alphabet == {"a", ".", "b", "i", "t", "\n"}

DomainStrings == UNION {[1..n -> Alphabet] : n \in 0..MaxLen}

\* the regular expression's "." matches any character but a line terminator
RegexDot(c) == c # "\n"

\* /.+\.bit/.test(s): unanchored; ".bit" somewhere, one or more "." characters
\* right before it.
RegexTest(s) ==
    \E i \in 2..(Len(s) - 3) :
        /\ RegexDot(s[i - 1])
        /\ s[i] = "." /\ s[i + 1] = "b" /\ s[i + 2] = "i" /\ s[i + 3] = "t"

isSupportedDomain(account) ==
    /\ RegexTest(account)
    /\ \A j \in 1..Len(split(account)) : Len(split(account)[j]) # 0

\* a ResolutionError as a call's outcome
ResolutionError(code, domain, extra) ==
    [kind |-> "throw", error |-> "ResolutionError", code |-> code,
     domain |-> domain, extra |-> extra]

Return(v) == [kind |-> "return", val |-> v]

namehash(account) ==
    IF ~isSupportedDomain(account)
    THEN ResolutionError("UnregisteredDomain", account, undefined)
    ELSE Return(Str(""))

(***************************************************************************)
(* Construction: the constructor and the autonetwork convenience           *)
(* constructor.                                                            *)
(***************************************************************************)
\* DasService.UrlMap
UrlMap(network) ==
    CASE network = Str("mainnet") -> Str("https://indexer.da.systems")
      [] network = Str("testnet") -> Str("http://47.243.90.165:8223")
      [] network = Str("aggron") -> Str("http://47.243.90.165:8223")
      [] OTHER -> undefined

\* DasSupportedNetwork.guard
DasSupportedNetwork(network) ==
    network \in {Str("mainnet"), Str("testnet"), Str("aggron")}

ConfigurationError(code) ==
    [kind |-> "throw", error |-> "ConfigurationError", code |-> code]

\* new FetchProvider(this.name, this.url)
FetchProvider(url) == <<"FetchProvider", url>>

UrlOptions == {undefined, Str(""), Str("http://u"), Str("https://indexer.da.systems")}
NetworkOptions ==
    {undefined, Str(""), Str("mainnet"), Str("testnet"), Str("aggron"), Str("ropsten")}
ProviderOptions == {undefined, <<"provider", "P1">>, <<"provider", "P2">>}
DasSources == [url : UrlOptions, network : NetworkOptions, provider : ProviderOptions]

\* the source object as the constructor leaves it: network defaulted in place
\* once the url/provider check has passed
SourceAfterConstructor(source) ==
    IF ~(Truthy(source.url) \/ Truthy(source.provider)) THEN source
    ELSE IF ~Truthy(source.network) THEN [source EXCEPT !.network = Str("mainnet")]
    ELSE source

\* a constructor that checks the network before defaulting it
ConstructorChecksFirst(source) ==
    IF ~(Truthy(source.url) \/ Truthy(source.provider))
    THEN ConfigurationError("UnspecifiedUrl")
    ELSE IF ~DasSupportedNetwork(source.network)
    THEN ConfigurationError("UnsupportedNetwork")
    ELSE Return([network |-> source.network,
                 url |-> source.url,
                 provider |-> IF Truthy(source.provider) THEN source.provider
                              ELSE FetchProvider(source.url)])

\* constructor(source): the thrown ConfigurationError, or the new instance
Constructor(source) ==
    IF ~(Truthy(source.url) \/ Truthy(source.provider))
    THEN ConfigurationError("UnspecifiedUrl")
    ELSE IF ~DasSupportedNetwork(SourceAfterConstructor(source).network)
    THEN ConfigurationError("UnsupportedNetwork")
    ELSE Return([network |-> SourceAfterConstructor(source).network,
                 url |-> source.url,
                 provider |-> IF Truthy(source.provider) THEN source.provider
                              ELSE FetchProvider(source.url)])

\* an options object as an argument that may also be left out
Obj(source) == <<"object", source>>

\* the source autonetwork hands to the constructor; arg is undefined or Obj(source)
AutonetworkSource(arg) ==
    IF ~Truthy(arg)
    THEN [url |-> UrlMap(Str("mainnet")), network |-> Str("mainnet"),
          provider |-> undefined]
    ELSE IF Truthy(arg[2].network) /\ ~Truthy(arg[2].url)
    THEN [arg[2] EXCEPT !.url = UrlMap(arg[2].network)]
    ELSE arg[2]

NoInstance == [none |-> TRUE]
NoCtor == [op |-> "none"]

(***************************************************************************)
(* The indexer behind the transport.                                       *)
(***************************************************************************)
profile == <<"p", "r", "o", "f", "i", "l", "e">>
address == <<"a", "d", "d", "r", "e", "s", "s">>
dweb == <<"d", "w", "e", "b">>
custom == <<"c", "u", "s", "t", "o", "m">>

\* AccountRecordTypes: the four groups account() builds
AccountRecordTypes == {profile, address, dweb, custom}

\* a record as the wire delivers it: key, value and ttl are strings, the
\* derived fields are not there yet
RawRecord(key, value, ttl) ==
    [key |-> key, value |-> value, ttl |-> Str(ttl),
     type |-> undefined, strippedKey |-> undefined]

\* the records the indexer may hold
WireRecords ==
    { RawRecord(profile \o <<".", "x">>, "v", <<"3", "0", "0">>),
      RawRecord(profile \o <<".", "X">>, "w", <<"0", "7">>),
      RawRecord(profile \o <<".", "x">>, "", <<"3", "0", "0">>),
      RawRecord(address \o <<".", "a", ".", "b">>, "v", <<"1", "0">>),
      RawRecord(<<"z", "z">>, "w", <<"0", "7">>) }

WirePayloads == UNION {[1..n -> WireRecords] : n \in 0..MaxRecords}

RegisteredAccount == "reg.bit"
Accounts == {"reg.bit", "unreg.bit"}

\* keys callers ask for: present in lower case, present in another case, never
\* present
QueryKeys == {profile \o <<".", "x">>, profile \o <<".", "X">>, <<"z", "z", ".", "a">>}
QueryKeyLists == UNION {[1..n -> QueryKeys] : n \in 0..MaxKeys}

\* das_getAddressAccount: data.data.account_data, the accounts of an address
ReverseIndex(addr) ==
    CASE addr = "0xnone" -> <<>>
      [] addr = "0xone" -> <<[account |-> "reg.bit"]>>
      [] addr = "0xtwo" -> <<[account |-> "b.bit"], [account |-> "reg.bit"]>>
Addresses == {"0xnone", "0xone", "0xtwo"}
Tickers == {"ETH", "CKB", "BTC", "eth"}

\* the account_data object a das_searchAccount response carries
AccountDataCell(records) ==
    [account |-> RegisteredAccount, owner_lock_args_hex |-> "0xowner",
     records |-> records]

Request(method, param) == [method |-> method, params |-> <<param>>]

TransportError == [kind |-> "throw", error |-> "TransportError"]

VARIABLES
    inst,    \* the constructed instance: network, url, provider
    ctor,    \* the last construction: its argument, the source afterwards, the outcome
    probe,   \* the last synchronous domain-syntax call and its outcome
    wire,    \* the raw records the indexer holds for the registered account
    heap,    \* response objects: heap[0] the one a caching transport hands out
             \* again, heap[c] the one freshly parsed for call c
    calls    \* the query calls in flight

vars == <<inst, ctor, probe, wire, heap, calls>>

NoObject == [none |-> TRUE]
NoProbe == [op |-> "none"]

Idle ==
    [op |-> "idle", pc |-> "idle", account |-> "", arg |-> undefined,
     obj |-> 0, tmp |-> undefined, sent |-> <<>>, out |-> [kind |-> "none"]]

(***************************************************************************)
(* getAccountData: normalization of the response object, in place.         *)
(***************************************************************************)
\* a normalization that joins the remaining segments without the dot
NormalizeRecordNoDot(record) ==
    [record EXCEPT !.ttl = Number(record.ttl),
                   !.type = Head(split(record.key)),
                   !.strippedKey = IF Len(split(record.key)) > 2
                                   THEN split(record.key)[2] \o split(record.key)[3]
                                   ELSE join(Tail(split(record.key)))]

\* a normalization that also strips the type off the key in place
NormalizeRecordStripsKey(record) ==
    [record EXCEPT !.ttl = Number(record.ttl),
                   !.key = join(Tail(split(record.key))),
                   !.type = Head(split(record.key)),
                   !.strippedKey = join(Tail(split(record.key)))]

\* the body of the forEach callback: what it writes onto one record
NormalizeRecord(record) ==
    [record EXCEPT !.ttl = Number(record.ttl),
                   !.type = Head(split(record.key)),
                   !.strippedKey = join(Tail(split(record.key)))]

\* data.data.account_data.records.forEach(...)
NormalizeAll(accountData) ==
    [accountData EXCEPT !.records =
        [i \in 1..Len(accountData.records) |-> NormalizeRecord(accountData.records[i])]]

\* the function whose continuation runs once getAccountData has resolved
Awaiter(op) ==
    IF op \in {"record", "records", "allRecords"} THEN "allRecords" ELSE op

\* a call enters getAccountData and suspends on provider.request
EnterGetAccountData(c, op, account, arg) ==
    /\ inst # NoInstance
    /\ calls[c].pc = "idle"
    /\ calls' = [calls EXCEPT ![c] =
          [Idle EXCEPT !.op = op, !.pc = "getAccountData", !.account = account,
                       !.arg = arg,
                       !.sent = <<Request("das_searchAccount", account)>>]]
    /\ UNCHANGED <<inst, ctor, probe, wire, heap>>

Finished(call, outcome) == [call EXCEPT !.pc = "done", !.out = outcome]

\* the transport rejects the request a call waits on; the failure propagates
TransportFails(c) ==
    /\ calls[c].pc \in {"getAccountData", "allReverse"}
    /\ calls' = [calls EXCEPT ![c] = Finished(@, TransportError)]
    /\ UNCHANGED <<inst, ctor, probe, wire, heap>>

\* the das_searchAccount response arrives without data
GetAccountDataUnregistered(c) ==
    /\ calls[c].pc = "getAccountData"
    /\ calls[c].account # RegisteredAccount
    /\ calls' = [calls EXCEPT ![c] =
          Finished(@, ResolutionError("UnregisteredDomain", calls[c].account, undefined))]
    /\ UNCHANGED <<inst, ctor, probe, wire, heap>>

\* the das_searchAccount response arrives with data: the transport hands out
\* its cached response object (o = 0) or a freshly parsed one (o = c);
\* getAccountData normalizes it in place and resolves with its account_data
GetAccountDataResume(c) ==
    /\ calls[c].pc = "getAccountData"
    /\ calls[c].account = RegisteredAccount
    /\ \E o \in {0, c} :
        /\ heap' = [heap EXCEPT ![o] =
              NormalizeAll(IF o = 0 THEN heap[0] ELSE AccountDataCell(wire))]
        /\ calls' = [calls EXCEPT ![c].pc = Awaiter(calls[c].op), ![c].obj = o]
    /\ UNCHANGED <<inst, ctor, probe, wire>>

(***************************************************************************)
(* Derived views: the flattened map, the bulk lookup, the aggregate.       *)
(***************************************************************************)
\* obj[k] = v on a plain object
Assign(obj, k, v) == [x \in (DOMAIN obj) \cup {k} |-> IF x = k THEN v ELSE obj[x]]

\* obj[k]: the value as a string, or undefined
Get(obj, k) == IF k \in DOMAIN obj THEN Str(obj[k]) ELSE undefined

RECURSIVE FlattenInto(_, _)
\* records.forEach(record => returnee[record.key.toLowerCase()] = record.value)
FlattenInto(returnee, records) ==
    IF records = <<>> THEN returnee
    ELSE FlattenInto(Assign(returnee, toLowerCase(Head(records).key), Head(records).value),
                     Tail(records))

Flatten(records) == FlattenInto(<<>>, records)

\* the key record() looks up
RecordLookupKey(key) == toLowerCase(key)

\* record(): the lookup after allRecords has resolved with the flattened map
RecordOutcome(account, key, flattened) ==
    IF ~Truthy(Get(flattened, RecordLookupKey(key)))
    THEN ResolutionError("RecordNotFound", account, RecordLookupKey(key))
    ELSE Return(Get(flattened, RecordLookupKey(key)))

\* records[key] || ''
RecordsEntry(flattened, key) ==
    IF Truthy(Get(flattened, key)) THEN Get(flattened, key)[2] ELSE ""

RECURSIVE RecordsReduce(_, _, _)
\* keys.reduce((returnee, key) => { returnee[key] = records[key] || ''; ... }, {})
RecordsReduce(returnee, flattened, keys) ==
    IF keys = <<>> THEN returnee
    ELSE RecordsReduce(Assign(returnee, Head(keys), RecordsEntry(flattened, Head(keys))),
                       flattened, Tail(keys))

\* accountData.records.filter(record => record.type === type)
FilterByType(records, type) == SelectSeq(records, LAMBDA record : record.type = type)

RECURSIVE ResolveInto(_, _)
ResolveInto(acc, records) ==
    IF records = <<>> THEN acc
    ELSE ResolveInto(Assign(acc, Head(records).strippedKey, Head(records)), Tail(records))

RECURSIVE ResolveFirstInto(_, _)
ResolveFirstInto(acc, records) ==
    IF records = <<>> THEN acc
    ELSE ResolveFirstInto(IF Head(records).strippedKey \in DOMAIN acc THEN acc
                          ELSE Assign(acc, Head(records).strippedKey, Head(records)),
                          Tail(records))

\* a reduce that keeps the first record of each strippedKey
resolveOneKeepsFirst(records) == ResolveFirstInto(<<>>, records)

\* resolveOneFromRecords: records.reduce((profile, record) => ..., {})
resolveOneFromRecords(records) == ResolveInto(<<>>, records)

\* the object account() returns
ConstructedAccount(account, accountData) ==
    [account |-> accountData.account,
     avatar |-> <<"https://identicons.da.systems/identicon/", account>>,
     profile |-> resolveOneFromRecords(FilterByType(accountData.records, profile)),
     address |-> resolveOneFromRecords(FilterByType(accountData.records, address)),
     dweb |-> resolveOneFromRecords(FilterByType(accountData.records, dweb)),
     custom |-> resolveOneFromRecords(FilterByType(accountData.records, custom)),
     profiles |-> FilterByType(accountData.records, profile),
     addresses |-> FilterByType(accountData.records, address),
     dwebs |-> FilterByType(accountData.records, dweb),
     customs |-> FilterByType(accountData.records, custom),
     records |-> accountData.records]

\* accounts[0] of reverse()
FirstAccount(accounts) ==
    IF Len(accounts) > 0 THEN Str(accounts[1]) ELSE undefined

(***************************************************************************)
(* The query surface: one action per entry and per continuation.           *)
(***************************************************************************)
OwnerCall(c, account) == EnterGetAccountData(c, "owner", account, undefined)

RecordCall(c, account, key) == EnterGetAccountData(c, "record", account, key)

RecordsCall(c, account, keys) == EnterGetAccountData(c, "records", account, keys)

AllRecordsCall(c, account) == EnterGetAccountData(c, "allRecords", account, undefined)

IsRegisteredCall(c, account) == EnterGetAccountData(c, "isRegistered", account, undefined)

RecordsByKeyCall(c, account, key) == EnterGetAccountData(c, "recordsByKey", account, key)

AccountCall(c, account) == EnterGetAccountData(c, "account", account, undefined)

\* allRecords continues: flattens the normalized records
AllRecordsResume(c) ==
    /\ calls[c].pc = "allRecords"
    /\ calls' = [calls EXCEPT ![c] =
          IF calls[c].op = "allRecords"
          THEN Finished(@, Return(Flatten(heap[calls[c].obj].records)))
          ELSE [@ EXCEPT !.pc = calls[c].op,
                         !.tmp = Flatten(heap[calls[c].obj].records)]]
    /\ UNCHANGED <<inst, ctor, probe, wire, heap>>

RecordResume(c) ==
    /\ calls[c].pc = "record"
    /\ calls' = [calls EXCEPT ![c] =
          Finished(@, RecordOutcome(calls[c].account, calls[c].arg, calls[c].tmp))]
    /\ UNCHANGED <<inst, ctor, probe, wire, heap>>

RecordsResume(c) ==
    /\ calls[c].pc = "records"
    /\ calls' = [calls EXCEPT ![c] =
          Finished(@, Return(RecordsReduce(<<>>, calls[c].tmp, calls[c].arg)))]
    /\ UNCHANGED <<inst, ctor, probe, wire, heap>>

OwnerResume(c) ==
    /\ calls[c].pc = "owner"
    /\ calls' = [calls EXCEPT ![c] =
          Finished(@, Return(Str(heap[calls[c].obj].owner_lock_args_hex)))]
    /\ UNCHANGED <<inst, ctor, probe, wire, heap>>

\* Boolean(accountData): an object is truthy
IsRegisteredResume(c) ==
    /\ calls[c].pc = "isRegistered"
    /\ calls' = [calls EXCEPT ![c] = Finished(@, Return(Bool(TRUE)))]
    /\ UNCHANGED <<inst, ctor, probe, wire, heap>>

RecordsByKeyResume(c) ==
    /\ calls[c].pc = "recordsByKey"
    /\ calls' = [calls EXCEPT ![c] =
          Finished(@, Return(SelectSeq(heap[calls[c].obj].records,
                                       LAMBDA record : record.key = calls[c].arg)))]
    /\ UNCHANGED <<inst, ctor, probe, wire, heap>>

AccountResume(c) ==
    /\ calls[c].pc = "account"
    /\ calls' = [calls EXCEPT ![c] =
          Finished(@, Return(ConstructedAccount(calls[c].account, heap[calls[c].obj])))]
    /\ UNCHANGED <<inst, ctor, probe, wire, heap>>

\* a call enters allReverse and suspends on provider.request
EnterAllReverse(c, op, addr, ticker) ==
    /\ inst # NoInstance
    /\ calls[c].pc = "idle"
    /\ calls' = [calls EXCEPT ![c] =
          [Idle EXCEPT !.op = op, !.pc = "allReverse", !.account = addr,
                       !.arg = ticker,
                       !.sent = <<Request("das_getAddressAccount", addr)>>]]
    /\ UNCHANGED <<inst, ctor, probe, wire, heap>>

AllReverseCall(c, addr) == EnterAllReverse(c, "allReverse", addr, undefined)

\* the ticker check of reverse()
SupportedTicker(currencyTicker) == currencyTicker \in {"ETH", "CKB"}

UnsupportedCurrency ==
    [kind |-> "throw", error |-> "Error",
     message |-> "Das does not support any chain other than CKB and ETH"]

ReverseCall(c, addr, currencyTicker) ==
    IF ~SupportedTicker(currencyTicker)
    THEN /\ inst # NoInstance
         /\ calls[c].pc = "idle"
         /\ calls' = [calls EXCEPT ![c] =
               [Idle EXCEPT !.op = "reverse", !.pc = "done", !.account = addr,
                            !.arg = currencyTicker, !.out = UnsupportedCurrency]]
         /\ UNCHANGED <<inst, ctor, probe, wire, heap>>
    ELSE EnterAllReverse(c, "reverse", addr, currencyTicker)

\* accounts.map(account => account.account)
AccountNames(accounts) == [i \in 1..Len(accounts) |-> accounts[i].account]

AllReverseResume(c) ==
    /\ calls[c].pc = "allReverse"
    /\ calls' = [calls EXCEPT ![c] =
          IF calls[c].op = "allReverse"
          THEN Finished(@, Return(AccountNames(ReverseIndex(calls[c].account))))
          ELSE [@ EXCEPT !.pc = "reverse",
                         !.tmp = AccountNames(ReverseIndex(calls[c].account))]]
    /\ UNCHANGED <<inst, ctor, probe, wire, heap>>

ReverseResume(c) ==
    /\ calls[c].pc = "reverse"
    /\ calls' = [calls EXCEPT ![c] = Finished(@, Return(FirstAccount(calls[c].tmp)))]
    /\ UNCHANGED <<inst, ctor, probe, wire, heap>>

\* the capability stubs: what each throws
childhash(parentHash, label) ==
    ResolutionError("UnsupportedMethod", label, "childhash")

resolver(account) == ResolutionError("UnsupportedMethod", account, "resolver")

\* twitter reporting the method name of resolver
twitterAsResolver(account) == ResolutionError("UnsupportedMethod", account, "resolver")

twitter(account) == ResolutionError("UnsupportedMethod", account, "twitter")

StubCall(c, op, account, arg, outcome) ==
    /\ inst # NoInstance
    /\ calls[c].pc = "idle"
    /\ calls' = [calls EXCEPT ![c] =
          [Idle EXCEPT !.op = op, !.pc = "done", !.account = account, !.arg = arg,
                       !.out = outcome]]
    /\ UNCHANGED <<inst, ctor, probe, wire, heap>>

ChildhashCall(c, parentHash, label) ==
    StubCall(c, "childhash", label, Str(parentHash), childhash(parentHash, label))

ResolverCall(c, account) == StubCall(c, "resolver", account, undefined, resolver(account))

TwitterCall(c, account) == StubCall(c, "twitter", account, undefined, twitter(account))

\* the caller takes the outcome; the call's own response object is dropped
Settle(c) ==
    /\ calls[c].pc = "done"
    /\ calls' = [calls EXCEPT ![c] = Idle]
    /\ heap' = [heap EXCEPT ![c] = NoObject]
    /\ UNCHANGED <<inst, ctor, probe, wire>>

(***************************************************************************)
(* Synchronous calls: domain syntax and construction.                      *)
(***************************************************************************)
IsSupportedDomainCall(account) ==
    /\ probe = NoProbe
    /\ probe' = [op |-> "isSupportedDomain", arg |-> account,
                 out |-> Return(Bool(isSupportedDomain(account)))]
    /\ UNCHANGED <<inst, ctor, wire, heap, calls>>

NamehashCall(account) ==
    /\ probe = NoProbe
    /\ probe' = [op |-> "namehash", arg |-> account, out |-> namehash(account)]
    /\ UNCHANGED <<inst, ctor, wire, heap, calls>>

\* the caller takes the outcome of a synchronous call
ProbeSettle ==
    /\ probe # NoProbe
    /\ probe' = NoProbe
    /\ UNCHANGED <<inst, ctor, wire, heap, calls>>

\* what a construction leaves: the new instance, or the one there was
Constructed(outcome) == IF outcome.kind = "return" THEN outcome.val ELSE inst

ConstructorCall(source) ==
    /\ ctor' = [op |-> "constructor", arg |-> Obj(source),
                source |-> SourceAfterConstructor(source),
                out |-> Constructor(source)]
    /\ inst' = Constructed(Constructor(source))
    /\ UNCHANGED <<probe, wire, heap, calls>>

AutonetworkCall(arg) ==
    /\ ctor' = [op |-> "autonetwork", arg |-> arg,
                source |-> SourceAfterConstructor(AutonetworkSource(arg)),
                out |-> Constructor(AutonetworkSource(arg))]
    /\ inst' = Constructed(Constructor(AutonetworkSource(arg)))
    /\ UNCHANGED <<probe, wire, heap, calls>>

(***************************************************************************)
(* Specifications.                                                         *)
(***************************************************************************)
CallIds == {1, 2}
ObjectIds == {0} \cup CallIds

\* an instance built around an injected transport
InjectedInstance ==
    Constructor([url |-> undefined, network |-> undefined,
                 provider |-> <<"provider", "P1">>]).val

InitWith(payloads) ==
    /\ inst = InjectedInstance
    /\ ctor = NoCtor
    /\ probe = NoProbe
    /\ wire \in payloads
    /\ heap = [o \in ObjectIds |-> IF o = 0 THEN AccountDataCell(wire) ELSE NoObject]
    /\ calls = [c \in CallIds |-> Idle]

\* one caller, one call at a time, the whole query surface
Init == InitWith(WirePayloads)

Resume(c) ==
    \/ TransportFails(c)
    \/ GetAccountDataUnregistered(c)
    \/ GetAccountDataResume(c)
    \/ AllRecordsResume(c)
    \/ RecordResume(c)
    \/ RecordsResume(c)
    \/ OwnerResume(c)
    \/ IsRegisteredResume(c)
    \/ RecordsByKeyResume(c)
    \/ AccountResume(c)
    \/ AllReverseResume(c)
    \/ ReverseResume(c)
    \/ Settle(c)

Next ==
    \/ \E account \in Accounts : OwnerCall(1, account)
    \/ \E account \in Accounts, key \in QueryKeys : RecordCall(1, account, key)
    \/ \E account \in Accounts, keys \in QueryKeyLists : RecordsCall(1, account, keys)
    \/ \E account \in Accounts : AllRecordsCall(1, account)
    \/ \E account \in Accounts : IsRegisteredCall(1, account)
    \/ \E account \in Accounts, key \in QueryKeys : RecordsByKeyCall(1, account, key)
    \/ \E account \in Accounts : AccountCall(1, account)
    \/ \E addr \in Addresses : AllReverseCall(1, addr)
    \/ \E addr \in Addresses, ticker \in Tickers : ReverseCall(1, addr, ticker)
    \/ \E account \in Accounts : ChildhashCall(1, "0xparent", account)
    \/ \E account \in Accounts : ResolverCall(1, account)
    \/ \E account \in Accounts : TwitterCall(1, account)
    \/ Resume(1)

Spec == Init /\ [][Next]_vars

\* two callers whose calls interleave at their await points
ConcMaxRecords == 2
ConcWireRecords ==
    { RawRecord(profile \o <<".", "x">>, "v", <<"3", "0", "0">>),
      RawRecord(profile \o <<".", "X">>, "w", <<"0", "7">>),
      RawRecord(<<"z", "z", ".", "x">>, "", <<"0", "7">>) }
ConcPayloads == UNION {[1..n -> ConcWireRecords] : n \in 0..ConcMaxRecords}
ConcKey == profile \o <<".", "X">>

InitConc == InitWith(ConcPayloads)

NextConc ==
    \E c \in CallIds :
        \/ \E account \in Accounts : RecordCall(c, account, ConcKey)
        \/ \E account \in Accounts : RecordsCall(c, account, <<ConcKey>>)
        \/ \E account \in Accounts : AllRecordsCall(c, account)
        \/ \E account \in Accounts : IsRegisteredCall(c, account)
        \/ \E account \in Accounts : AccountCall(c, account)
        \/ TransportFails(c)
        \/ GetAccountDataUnregistered(c)
        \/ GetAccountDataResume(c)
        \/ AllRecordsResume(c)
        \/ RecordResume(c)
        \/ RecordsResume(c)
        \/ IsRegisteredResume(c)
        \/ AccountResume(c)
        \/ Settle(c)

SpecConc == InitConc /\ [][NextConc]_vars

\* the synchronous domain-syntax calls on every short string
InitDomain == InitWith({<<>>})

NextDomain ==
    \/ probe = NoProbe /\ \E account \in DomainStrings : IsSupportedDomainCall(account)
    \/ probe = NoProbe /\ \E account \in DomainStrings : NamehashCall(account)
    \/ ProbeSettle

SpecDomain == InitDomain /\ [][NextDomain]_vars

\* construction from every combination of options
InitCtor ==
    /\ inst = NoInstance
    /\ ctor = NoCtor
    /\ probe = NoProbe
    /\ wire = <<>>
    /\ heap = [o \in ObjectIds |-> IF o = 0 THEN AccountDataCell(wire) ELSE NoObject]
    /\ calls = [c \in CallIds |-> Idle]

NextCtor ==
    \/ \E source \in DasSources : ConstructorCall(source)
    \/ \E arg \in {undefined} \cup {Obj(source) : source \in DasSources} :
          AutonetworkCall(arg)

SpecCtor == InitCtor /\ [][NextCtor]_vars

(***************************************************************************)
(* Properties.                                                             *)
(***************************************************************************)
\* the functions that run on an AccountData getAccountData has resolved with
AfterGetAccountData ==
    {"allRecords", "record", "records", "owner", "isRegistered", "recordsByKey",
     "account"}

DoneWith(c, op) == calls[c].op = op /\ calls[c].pc = "done"

Max(S) == CHOOSE i \in S : \A j \in S : j <= i

\* the j-th smallest element of a set of indices
Nth(S, j) == CHOOSE i \in S : Cardinality({k \in S : k <= i}) = j

\* C1: isRegistered completes with false when the das_searchAccount response
\* carries no data and with true when it carries one; it never ends in an
\* UnregisteredDomain failure, and a transport failure propagates.
C1_IsRegisteredTranslates ==
    \A c \in CallIds :
        DoneWith(c, "isRegistered") =>
            \/ calls[c].out = TransportError
            \/ /\ calls[c].account # RegisteredAccount
               /\ calls[c].out = Return(Bool(FALSE))
            \/ /\ calls[c].account = RegisteredAccount
               /\ calls[c].out = Return(Bool(TRUE))

\* ends with the literal suffix ".bit"
EndsWithBit(s) ==
    /\ Len(s) >= 4
    /\ SubSeq(s, Len(s) - 3, Len(s)) = <<".", "b", "i", "t">>

\* no label between dots is empty: no leading, trailing or doubled dot
LabelsNonEmpty(s) ==
    /\ Len(s) > 0
    /\ s[1] # "."
    /\ s[Len(s)] # "."
    /\ \A i \in 1..(Len(s) - 1) : ~(s[i] = "." /\ s[i + 1] = ".")

\* C2: isSupportedDomain(s) is true if and only if s ends with ".bit" and
\* every label of s is non-empty.
C2_SupportedIffSuffix ==
    probe.op = "isSupportedDomain" =>
        (probe.out = Return(Bool(TRUE))
            <=> (EndsWithBit(probe.arg) /\ LabelsNonEmpty(probe.arg)))

\* the payload positions whose lower-cased key equals the lower-cased key asked for
Matching(key) ==
    {i \in 1..Len(wire) : toLowerCase(wire[i].key) = toLowerCase(key)}

\* C3: record(account, key) on a registered account returns the value of the
\* last record whose lower-cased key equals the lower-cased key asked for,
\* whatever that value is, and fails with RecordNotFound exactly when there is
\* no such record.
C3_RecordLastWins ==
    \A c \in CallIds :
        (DoneWith(c, "record") /\ calls[c].account = RegisteredAccount) =>
            \/ calls[c].out = TransportError
            \/ /\ Matching(calls[c].arg) = {}
               /\ calls[c].out.kind = "throw"
               /\ calls[c].out.code = "RecordNotFound"
            \/ /\ Matching(calls[c].arg) # {}
               /\ calls[c].out = Return(Str(wire[Max(Matching(calls[c].arg))].value))

\* what record(account, key) gives when run on the indexer's payload
RecordAlone(account, key) == RecordOutcome(account, key, Flatten(wire))

\* C4: records(account, keys) on a registered account never fails for a
\* missing key; its key set is the keys asked for, and the entry of each key k
\* is what record(account, k) returns when that succeeds and "" when that
\* fails with RecordNotFound.
C4_RecordsAgreesWithRecord ==
    \A c \in CallIds :
        (DoneWith(c, "records") /\ calls[c].account = RegisteredAccount) =>
            \/ calls[c].out = TransportError
            \/ /\ calls[c].out.kind = "return"
               /\ DOMAIN calls[c].out.val = {calls[c].arg[i] : i \in 1..Len(calls[c].arg)}
               /\ \A k \in DOMAIN calls[c].out.val :
                    IF RecordAlone(calls[c].account, k).kind = "return"
                    THEN Str(calls[c].out.val[k]) = RecordAlone(calls[c].account, k).val
                    ELSE calls[c].out.val[k] = ""

\* C5: reverse fails with the unsupported-currency error for a ticker other
\* than "ETH" and "CKB"; otherwise it returns the first name of the address's
\* list, and null when the list is empty.
C5_ReverseFirstOrNull ==
    \A c \in CallIds :
        DoneWith(c, "reverse") =>
            IF calls[c].arg \notin {"ETH", "CKB"}
            THEN calls[c].out = UnsupportedCurrency
            ELSE \/ calls[c].out = TransportError
                 \/ /\ ReverseIndex(calls[c].account) # <<>>
                    /\ calls[c].out = Return(Str(ReverseIndex(calls[c].account)[1].account))
                 \/ /\ ReverseIndex(calls[c].account) = <<>>
                    /\ calls[c].out = Return(null)

\* the position of the first dot of a key, or one past its end
FirstDot(key) ==
    IF \E i \in 1..Len(key) : key[i] = "."
    THEN CHOOSE i \in 1..Len(key) : key[i] = "." /\ \A j \in 1..(i - 1) : key[j] # "."
    ELSE Len(key) + 1

\* the number a wire ttl denotes
Denoted(ttl) ==
    CASE ttl = <<"3", "0", "0">> -> 300
      [] ttl = <<"0", "7">> -> 7
      [] ttl = <<"1", "0">> -> 10

\* record is the normalized form of the raw wire record
NormalizedFrom(record, raw) ==
    /\ record.key = raw.key
    /\ record.value = raw.value
    /\ record.ttl[1] = "number"
    /\ record.ttl[2] = Denoted(raw.ttl[2])
    /\ record.type = SubSeq(raw.key, 1, FirstDot(raw.key) - 1)
    /\ record.strippedKey = SubSeq(raw.key, FirstDot(raw.key) + 1, Len(raw.key))

NormalizedPayload(records) ==
    /\ Len(records) = Len(wire)
    /\ \A i \in 1..Len(wire) : NormalizedFrom(records[i], wire[i])

\* the positions of the records of one type
OfType(records, type) == {i \in 1..Len(records) : records[i].type = type}

\* list holds exactly the records of the type, in the order of records
GroupList(list, records, type) ==
    /\ Len(list) = Cardinality(OfType(records, type))
    /\ \A j \in 1..Len(list) : list[j] = records[Nth(OfType(records, type), j)]

\* map sends each strippedKey of the list to the last list record that has it
GroupMap(map, list) ==
    /\ DOMAIN map = {list[j].strippedKey : j \in 1..Len(list)}
    /\ \A k \in DOMAIN map :
          map[k] = list[Max({j \in 1..Len(list) : list[j].strippedKey = k})]

GroupViews(r) ==
    /\ GroupList(r.profiles, r.records, profile) /\ GroupMap(r.profile, r.profiles)
    /\ GroupList(r.addresses, r.records, address) /\ GroupMap(r.address, r.addresses)
    /\ GroupList(r.dwebs, r.records, dweb) /\ GroupMap(r.dweb, r.dwebs)
    /\ GroupList(r.customs, r.records, custom) /\ GroupMap(r.custom, r.customs)

Range(f) == {f[x] : x \in DOMAIN f}

\* the records of all eight group views
Grouped(r) ==
    Range(r.profiles) \cup Range(r.addresses) \cup Range(r.dwebs) \cup Range(r.customs)
    \cup Range(r.profile) \cup Range(r.address) \cup Range(r.dweb) \cup Range(r.custom)

\* C6: account(account) on a registered account returns, for each of the four
\* groups, the list of the records of that type in payload order and a map from
\* strippedKey to the last list record with it; a record of any other type is
\* in none of the group views, only in records, and the call does not fail.
C6_AccountGroups ==
    \A c \in CallIds :
        (DoneWith(c, "account") /\ calls[c].account = RegisteredAccount) =>
            \/ calls[c].out = TransportError
            \/ /\ calls[c].out.kind = "return"
               /\ NormalizedPayload(calls[c].out.val.records)
               /\ GroupViews(calls[c].out.val)
               /\ \A i \in 1..Len(calls[c].out.val.records) :
                    calls[c].out.val.records[i].type \notin AccountRecordTypes
                        => calls[c].out.val.records[i] \notin Grouped(calls[c].out.val)

\* account() has returned two profile records sharing a strippedKey, and a
\* record outside the four groups
C6_Witness ==
    /\ DoneWith(1, "account")
    /\ calls[1].out.kind = "return"
    /\ Len(calls[1].out.val.profiles) = 2
    /\ calls[1].out.val.profiles[1].strippedKey = calls[1].out.val.profiles[2].strippedKey
    /\ calls[1].out.val.profiles[1] # calls[1].out.val.profiles[2]
    /\ \E i \in 1..Len(calls[1].out.val.records) :
          calls[1].out.val.records[i].type \notin AccountRecordTypes

\* C7: the records getAccountData resolves with are the payload's records, in
\* the same order and number, each with ttl the number its wire string denotes,
\* type the first dot-separated segment of key and strippedKey the rest of key.
C7_Normalization ==
    \A c \in CallIds :
        calls[c].pc \in AfterGetAccountData =>
            NormalizedPayload(heap[calls[c].obj].records)

\* getAccountData has resolved with a key of three segments and a key without
\* a dot
C7_Witness ==
    /\ calls[1].pc \in AfterGetAccountData
    /\ \E i, j \in 1..Len(wire) :
          /\ heap[calls[1].obj].records[i].strippedKey = <<"a", ".", "b">>
          /\ heap[calls[1].obj].records[j].strippedKey = <<>>
          /\ heap[calls[1].obj].records[j].ttl = <<"number", 7>>

\* C8: resolver, twitter and childhash fail with UnsupportedMethod, carrying
\* the domain and the method name, without a transport request.
C8_Stubs ==
    \A c \in CallIds :
        calls[c].op \in {"resolver", "twitter", "childhash"} =>
            /\ calls[c].pc = "done"
            /\ calls[c].sent = <<>>
            /\ calls[c].out =
                  [kind |-> "throw", error |-> "ResolutionError",
                   code |-> "UnsupportedMethod", domain |-> calls[c].account,
                   extra |-> calls[c].op]

C8_Witness == DoneWith(1, "twitter") /\ calls[1].account = "unreg.bit"

\* the network an options object asks for, "mainnet" when it names none
GivenOrDefault(network) == IF network = undefined THEN Str("mainnet") ELSE network

Supported == {Str("mainnet"), Str("testnet"), Str("aggron")}

\* the instance a successful construction from source must give
Stores(instance, source, network) ==
    /\ instance.network = network
    /\ instance.url = source.url
    /\ (source.provider # undefined => instance.provider = source.provider)

\* C9 as stated: construction fails with UnspecifiedUrl when neither url nor
\* provider is supplied, with UnsupportedNetwork when the network (mainnet if
\* absent) is not supported, and otherwise succeeds storing network, url and
\* the supplied provider.
C9_AsStated ==
    ctor.op = "constructor" =>
        IF ctor.arg[2].url = undefined /\ ctor.arg[2].provider = undefined
        THEN ctor.out = ConfigurationError("UnspecifiedUrl")
        ELSE IF GivenOrDefault(ctor.arg[2].network) \notin Supported
        THEN ctor.out = ConfigurationError("UnsupportedNetwork")
        ELSE /\ ctor.out.kind = "return"
             /\ Stores(ctor.out.val, ctor.arg[2], GivenOrDefault(ctor.arg[2].network))

\* absent or the empty string
Empty(v) == v = undefined \/ v = Str("")

\* C9 amended: an empty url counts as no url and an empty network as no
\* network. Construction fails with UnspecifiedUrl when there is neither a
\* non-empty url nor a provider; otherwise with UnsupportedNetwork when the
\* network (mainnet if absent or empty) is not supported; otherwise it succeeds
\* storing that network, the given url and the supplied provider.
C9_Construction ==
    ctor.op = "constructor" =>
        IF Empty(ctor.arg[2].url) /\ ctor.arg[2].provider = undefined
        THEN ctor.out = ConfigurationError("UnspecifiedUrl")
        ELSE IF (IF Empty(ctor.arg[2].network) THEN Str("mainnet")
                 ELSE ctor.arg[2].network) \notin Supported
        THEN ctor.out = ConfigurationError("UnsupportedNetwork")
        ELSE /\ ctor.out.kind = "return"
             /\ Stores(ctor.out.val, ctor.arg[2],
                       IF Empty(ctor.arg[2].network) THEN Str("mainnet")
                       ELSE ctor.arg[2].network)

\* a construction from a provider alone has succeeded on the default network
C9_Witness ==
    /\ ctor.op = "constructor"
    /\ ctor.arg[2].url = undefined
    /\ ctor.arg[2].network = undefined
    /\ ctor.arg[2].provider = <<"provider", "P2">>
    /\ ctor.out.kind = "return"
    /\ inst.network = Str("mainnet")

\* what a call gives when it runs alone on the indexer's payload
AloneOutcome(op, account, arg) ==
    IF account # RegisteredAccount
    THEN ResolutionError("UnregisteredDomain", account, undefined)
    ELSE CASE op = "allRecords" ->
                Return(Flatten(NormalizeAll(AccountDataCell(wire)).records))
           [] op = "record" ->
                RecordOutcome(account, arg,
                              Flatten(NormalizeAll(AccountDataCell(wire)).records))
           [] op = "records" ->
                Return(RecordsReduce(<<>>,
                           Flatten(NormalizeAll(AccountDataCell(wire)).records), arg))
           [] op = "isRegistered" -> Return(Bool(TRUE))
           [] op = "account" ->
                Return(ConstructedAccount(account, NormalizeAll(AccountDataCell(wire))))

\* C10: whatever the interleaving of two calls, and whether or not they are
\* handed the same response object, each call ends with the outcome it has
\* when run alone; and a call computes its derived view only from records
\* that are all normalized.
C10_NoInterference ==
    \A c \in CallIds :
        /\ calls[c].pc = "done" =>
              \/ calls[c].out = TransportError
              \/ calls[c].out = AloneOutcome(calls[c].op, calls[c].account, calls[c].arg)
        /\ calls[c].pc \in AfterGetAccountData =>
              \A i \in 1..Len(heap[calls[c].obj].records) :
                  /\ heap[calls[c].obj].records[i].ttl[1] = "number"
                  /\ heap[calls[c].obj].records[i].type # undefined
                  /\ heap[calls[c].obj].records[i].strippedKey # undefined

\* two calls in flight on the same response object: one has flattened it, the
\* other has normalized it again and has yet to build its aggregate
C10_Witness ==
    /\ calls[1].pc = "account"
    /\ calls[2].pc = "record"
    /\ calls[1].obj = 0
    /\ calls[2].obj = 0
    /\ Len(wire) > 0

====
